---- MODULE Spec2Model ----
(***************************************************************************)
(* Model of app/static/js/dashboard.js: the floating chat widget           *)
(* (enviarMensagem, adicionarMensagemChat and the promise chain of the     *)
(* fetch to /ai/chat), the toast notification (mostrarNotificacao and its  *)
(* timers) and the hover tooltips (mostrarTooltip / esconderTooltip).      *)
(*                                                                         *)
(* Text is a sequence of one-character strings.  Markup produced by the    *)
(* script (<pre>, <strong>, ...) is one token of such a sequence.          *)
(***************************************************************************)
EXTENDS Integers, Sequences, FiniteSets, TLC

VARIABLES
    inputValue,     \* #chatInput .value
    chatMessages,   \* children of #chatMessages, in document order
    reqs,           \* the fetch calls issued so far and the state of each promise chain
    calls,          \* history: number of enviarMensagem calls so far
    created,        \* history: number of chat nodes created so far
    padded,         \* history: some request was sent from an input with surrounding whitespace
    body,           \* toast and tooltip children of document.body, in document order
    toasts,         \* every toast node created so far (attached or detached); age is
                    \* history: the ms since its creation, counted up to Lifetime
    timers,         \* pending setTimeout callbacks of the toasts
    hovered,        \* the annotated elements the pointer is currently inside
    renderIn,       \* the conteudo argument of one run of the replace chain
    renderOut,      \* the markup that run produced
    timeout,        \* the variable timeout of the debounce closure (0: undefined)
    dTimers,        \* pending setTimeout callbacks of the debounced function
    funcCalls,      \* the argument of every call of func made so far
    wrapperCalls,   \* history: number of calls of executedFunction
    gap,            \* history: ms since the latest call of executedFunction
    burstArgs,      \* history: the last argument of every burst of calls
    edge,           \* history: a call came exactly wait ms after the one before
    chatActive,     \* #chatContainer has the class active
    toggleDisplay,  \* .chat-toggle style.display
    focused,        \* the element that has the input focus
    toggles,        \* history: number of toggleChat calls
    head            \* the style blocks this script appended to document.head

chatVars == <<inputValue, chatMessages, reqs, calls, created, padded>>
pageVars == <<body, toasts, timers, hovered>>
renderVars == <<renderIn, renderOut>>
debounceVars == <<timeout, dTimers, funcCalls, wrapperCalls, gap, burstArgs, edge>>
widgetVars == <<chatActive, toggleDisplay, focused, toggles, head>>
utilVars == <<renderVars, debounceVars, widgetVars>>
vars == <<inputValue, chatMessages, reqs, calls, created, padded,
          body, toasts, timers, hovered, utilVars>>

----------------------------------------------------------------------------
(* Bounds *)

MaxSends == 2       \* enviarMensagem calls that issue a request
MaxBlank == 1       \* enviarMensagem calls with blank input
MaxToasts == 2      \* mostrarNotificacao calls
MaxBody == 3        \* characters between the fences of a rendered string
MaxWrapperCalls == 3 \* calls of the debounced function
MaxToggles == 3     \* toggleChat calls
MaxLoads == 2       \* times the script is loaded into the page

----------------------------------------------------------------------------
(* Text helpers *)

Whitespace == {" ", "\n"}

WordChars == {"a", "b", "e", "h", "i", "l", "o"}

\* the grave accent character U+0060 (the lexer of the parser does not accept it in a string)
Backtick == "[backtick]"

Fence == <<Backtick, Backtick, Backtick>>

RECURSIVE TrimStart(_)
TrimStart(s) ==
    IF s # <<>> /\ Head(s) \in Whitespace THEN TrimStart(Tail(s)) ELSE s

RECURSIVE TrimEnd(_)
TrimEnd(s) ==
    IF s # <<>> /\ s[Len(s)] \in Whitespace
    THEN TrimEnd(SubSeq(s, 1, Len(s) - 1))
    ELSE s

NoTrim(s) == s

\* String.prototype.trim
Trim(s) == TrimEnd(TrimStart(s))

StartsWith(s, i, pat) ==
    /\ i + Len(pat) - 1 <= Len(s)
    /\ SubSeq(s, i, i + Len(pat) - 1) = pat

\* least j >= i at which pat occurs in s, 0 when there is none
RECURSIVE FindFrom(_, _, _)
FindFrom(s, i, pat) ==
    IF i + Len(pat) - 1 > Len(s) THEN 0
    ELSE IF StartsWith(s, i, pat) THEN i
    ELSE FindFrom(s, i + 1, pat)

\* (\w*) : greedy run of word characters starting at i
RECURSIVE SkipWord(_, _)
SkipWord(s, i) ==
    IF i <= Len(s) /\ s[i] \in WordChars THEN SkipWord(s, i + 1) ELSE i

\* \n? : one optional newline at i
SkipNewline(s, i) == IF i <= Len(s) /\ s[i] = "\n" THEN i + 1 ELSE i

HasNewline(s, i, j) == \E k \in i..j : s[k] = "\n"

\* first replace of the chain: fenced block, optional language tag and newline, lazy body
RECURSIVE ReplaceFence(_, _)
ReplaceFence(s, i) ==
    IF i > Len(s) THEN <<>>
    ELSE IF StartsWith(s, i, Fence)
         THEN LET p == SkipNewline(s, SkipWord(s, i + 3))
                  j == FindFrom(s, p, Fence)
              IN  IF j # 0
                  THEN <<"<pre>">> \o SubSeq(s, p, j - 1) \o <<"</pre>">>
                          \o ReplaceFence(s, j + 3)
                  ELSE <<s[i]>> \o ReplaceFence(s, i + 1)
         ELSE <<s[i]>> \o ReplaceFence(s, i + 1)

\* second and third replace: delimiter d, lazy body without newline, d again
RECURSIVE ReplaceDelim(_, _, _, _, _)
ReplaceDelim(s, i, d, open, close) ==
    IF i > Len(s) THEN <<>>
    ELSE IF StartsWith(s, i, d)
         THEN LET p == i + Len(d)
                  j == FindFrom(s, p, d)
              IN  IF j # 0 /\ ~HasNewline(s, p, j - 1)
                  THEN <<open>> \o SubSeq(s, p, j - 1) \o <<close>>
                          \o ReplaceDelim(s, j + Len(d), d, open, close)
                  ELSE <<s[i]>> \o ReplaceDelim(s, i + 1, d, open, close)
         ELSE <<s[i]>> \o ReplaceDelim(s, i + 1, d, open, close)

\* fourth replace: every newline becomes a line break
ReplaceNewline(s) == [k \in 1..Len(s) |-> IF s[k] = "\n" THEN "<br>" ELSE s[k]]

RenderNoBold(conteudo) ==
    ReplaceNewline(
        ReplaceDelim(ReplaceFence(conteudo, 1), 1, <<Backtick>>, "<code>", "</code>"))

\* the replace chain of adicionarMensagemChat
Render(conteudo) ==
    ReplaceNewline(
        ReplaceDelim(
            ReplaceDelim(ReplaceFence(conteudo, 1), 1,
                         <<"*", "*">>, "<strong>", "</strong>"),
            1, <<Backtick>>, "<code>", "</code>"))

----------------------------------------------------------------------------
(* JSON *)

\* escaping of one character inside a JSON string
EscapeChar(c) ==
    IF c = "\n" THEN <<"\\", "n">>
    ELSE IF c = "\"" THEN <<"\\", "\"">>
    ELSE IF c = "\\" THEN <<"\\", "\\">>
    ELSE <<c>>

RECURSIVE Escape(_)
Escape(s) == IF s = <<>> THEN <<>> ELSE EscapeChar(Head(s)) \o Escape(Tail(s))

RECURSIVE Unescape(_)
Unescape(s) ==
    IF s = <<>> THEN <<>>
    ELSE IF Head(s) = "\\" /\ Len(s) >= 2
         THEN <<(IF s[2] = "n" THEN "\n" ELSE s[2])>> \o Unescape(Tail(Tail(s)))
         ELSE <<Head(s)>> \o Unescape(Tail(s))

\* JSON.stringify({ key: text }) for a string text
JsonStringify(key, text) ==
    <<"{", "\"", key, "\"", ":", "\"">> \o Escape(text) \o <<"\"", "}">>

\* the key and the string value of a serialized one-member object
JsonKeyOf(b) == b[3]
JsonTextOf(b) == Unescape(SubSeq(b, 7, Len(b) - 2))

\* parsed JSON values a server can answer with
JNull == [tag |-> "null"]

BoldHi == <<"*", "*", "h", "i", "*", "*">>

ReplyOk == [tag |-> "object", sucesso |-> TRUE, resposta |-> BoldHi]
ReplyNoText == [tag |-> "object", sucesso |-> TRUE]
ReplyFail == [tag |-> "object", sucesso |-> FALSE, erro |-> <<"e">>]
ReplyEnglish == [tag |-> "object", success |-> TRUE, response |-> BoldHi]

ServerData == {JNull, ReplyOk, ReplyFail, ReplyNoText, ReplyEnglish}

\* data.sucesso is truthy
Sucesso(d) == "sucesso" \in DOMAIN d /\ d.sucesso = TRUE

\* String(data.erro), as the concatenation with a string produces it
ErroText(d) == IF "erro" \in DOMAIN d THEN d.erro ELSE <<"undefined">>

----------------------------------------------------------------------------
(* Chat *)

Hello == <<"h", "e", "l", "l", "o">>

\* values the user can leave in the chat input before pressing send
Inputs == {<<>>, <<" ">>, Hello, <<" ">> \o Hello \o <<"\n">>}

\* the cross mark U+274C (the lexer of the parser accepts no such character)
FailureGlyph == "[cross mark]"

Placeholder == <<"<em class=\"typing\">", "Pensando...", "</em>">>

ConnectionError ==
    <<FailureGlyph, " ", "Erro de conexão com o servidor.">>

\* adicionarMensagemChat(role, conteudo) on the children msgs of #chatMessages;
\* id, req and kind are history annotations of the node, not DOM state
adicionarMensagemChat(msgs, role, conteudo, id, req, kind) ==
    Append(msgs, [className |-> <<"message", role>>,
                  innerHTML |-> <<"<p>">> \o Render(conteudo) \o <<"</p>">>,
                  id |-> id, req |-> req, kind |-> kind])

KeepLastChild(msgs) == msgs

\* mensagens.removeChild(mensagens.lastChild)
RemoveLastChild(msgs) == SubSeq(msgs, 1, Len(msgs) - 1)

\* the user edits the chat input
TypeInput(v) ==
    /\ v # inputValue
    /\ inputValue' = v
    /\ UNCHANGED <<chatMessages, reqs, calls, created, padded>>
    /\ UNCHANGED pageVars
    /\ UNCHANGED utilVars

NeverEmpty(mensagem) == FALSE

\* !mensagem
IsEmpty(mensagem) == mensagem = <<>>

KeptInput(value) == value

\* input.value = ''
ClearedInput(value) == <<>>

enviarMensagem ==
    LET mensagem == Trim(inputValue)
        r == Len(reqs) + 1
    IN  /\ calls' = calls + 1
        /\ IF IsEmpty(mensagem)
           THEN /\ calls - Len(reqs) < MaxBlank
                /\ UNCHANGED <<inputValue, chatMessages, reqs, created, padded>>
           ELSE /\ Len(reqs) < MaxSends
                /\ padded' = (padded \/ inputValue # mensagem)
                /\ chatMessages' =
                     adicionarMensagemChat(
                         adicionarMensagemChat(chatMessages, "user", mensagem,
                                               created + 1, r, "user"),
                         "assistant", Placeholder, created + 2, r, "placeholder")
                /\ inputValue' = ClearedInput(inputValue)
                /\ created' = created + 2
                /\ reqs' = Append(reqs,
                     [url |-> "/ai/chat",
                      method |-> "POST",
                      headers |-> [name \in {"Content-Type"} |-> "application/json"],
                      body |-> JsonStringify("mensagem", mensagem),
                      pc |-> "fetch",
                      outcome |-> "pending",
                      data |-> JNull,
                      removed |-> <<>>,
                      appended |-> <<>>])
        /\ UNCHANGED pageVars
        /\ UNCHANGED utilVars

\* the fetch promise rejects: the catch handler is queued
FetchRejects(r) ==
    /\ reqs[r].pc = "fetch"
    /\ reqs' = [reqs EXCEPT ![r].pc = "catch", ![r].outcome = "failed"]
    /\ UNCHANGED <<inputValue, chatMessages, calls, created, padded>>
    /\ UNCHANGED pageVars
    /\ UNCHANGED utilVars

\* response.json() rejects: the body is not JSON
BodyUnparsable(r) ==
    /\ reqs[r].pc = "fetch"
    /\ reqs' = [reqs EXCEPT ![r].pc = "catch", ![r].outcome = "failed"]
    /\ UNCHANGED <<inputValue, chatMessages, calls, created, padded>>
    /\ UNCHANGED pageVars
    /\ UNCHANGED utilVars

\* response.json() fulfils with d: the data handler is queued
BodyParses(r, d) ==
    /\ reqs[r].pc = "fetch"
    /\ reqs' = [reqs EXCEPT ![r].pc = "then", ![r].outcome = "json", ![r].data = d]
    /\ UNCHANGED <<inputValue, chatMessages, calls, created, padded>>
    /\ UNCHANGED pageVars
    /\ UNCHANGED utilVars

\* .then(data => { ... }); when the handler throws, the chain goes on to the
\* catch handler and data is referenced no more (outcome "threw", data reset)
ThenData(r) ==
    /\ reqs[r].pc = "then"
    /\ LET d == reqs[r].data
           n == Len(chatMessages)
           rest == RemoveLastChild(chatMessages)
           gone == IF Len(rest) < n
                   THEN Append(reqs[r].removed, chatMessages[n])
                   ELSE reqs[r].removed
       IN  IF n = 0
           THEN \* removeChild(null) throws
                /\ reqs' = [reqs EXCEPT ![r].pc = "catch", ![r].outcome = "threw",
                                        ![r].data = JNull]
                /\ UNCHANGED <<chatMessages, created>>
           ELSE IF d.tag = "null" \/ (Sucesso(d) /\ "resposta" \notin DOMAIN d)
           THEN \* reading a property of null, or undefined.replace, throws
                /\ chatMessages' = rest
                /\ reqs' = [reqs EXCEPT ![r].pc = "catch", ![r].outcome = "threw",
                                        ![r].data = JNull, ![r].removed = gone]
                /\ UNCHANGED created
           ELSE LET conteudo == IF Sucesso(d) THEN d.resposta
                                ELSE <<FailureGlyph, " ">> \o ErroText(d)
                    kind == IF Sucesso(d) THEN "reply" ELSE "error"
                    msgs == adicionarMensagemChat(rest, "assistant", conteudo,
                                                  created + 1, r, kind)
                IN  /\ chatMessages' = msgs
                    /\ created' = created + 1
                    /\ reqs' = [reqs EXCEPT
                          ![r].pc = "done",
                          ![r].removed = gone,
                          ![r].appended = Append(@, msgs[Len(msgs)])]
    /\ UNCHANGED <<inputValue, calls, padded>>
    /\ UNCHANGED pageVars
    /\ UNCHANGED utilVars

\* .catch(error => { ... })
CatchError(r) ==
    /\ reqs[r].pc = "catch"
    /\ LET n == Len(chatMessages)
           rest == RemoveLastChild(chatMessages)
           gone == IF Len(rest) < n
                   THEN Append(reqs[r].removed, chatMessages[n])
                   ELSE reqs[r].removed
       IN  IF n = 0
           THEN \* removeChild(null) throws inside the handler: nothing is appended
                /\ reqs' = [reqs EXCEPT ![r].pc = "done"]
                /\ UNCHANGED <<chatMessages, created>>
           ELSE LET msgs == adicionarMensagemChat(rest, "assistant", ConnectionError,
                                                  created + 1, r, "connerr")
                IN  /\ chatMessages' = msgs
                    /\ created' = created + 1
                    /\ reqs' = [reqs EXCEPT
                          ![r].pc = "done",
                          ![r].removed = gone,
                          ![r].appended = Append(@, msgs[Len(msgs)])]
    /\ UNCHANGED <<inputValue, calls, padded>>
    /\ UNCHANGED pageVars
    /\ UNCHANGED utilVars

----------------------------------------------------------------------------
(* Page: document.body holds the toast and the tooltip nodes *)

\* b without its child at the least index of S (querySelector and remove)
RemoveFirst(b, S) ==
    IF S = {} THEN b
    ELSE LET i == CHOOSE k \in S : \A m \in S : k <= m
         IN  SubSeq(b, 1, i - 1) \o SubSeq(b, i + 1, Len(b))

IsToast(n) == n.node = "toast"
IsTooltip(n) == n.node = "tooltip"

ToastCount == Cardinality({i \in 1..Len(body) : IsToast(body[i])})
TooltipCount == Cardinality({i \in 1..Len(body) : IsTooltip(body[i])})

(* Tooltips *)

\* the elements matched by [data-tooltip]; elB lies inside elA
Elements == {"elA", "elB", "elC", "elD"}

ParentOf(el) == IF el = "elB" THEN "elA" ELSE "none"

\* el.dataset.tooltip
TooltipText(el) ==
    CASE el = "elA" -> <<"a">>
      [] el = "elB" -> <<"b">>
      [] el = "elC" -> <<"c">>
      [] OTHER -> <<>>

\* el.getBoundingClientRect()
RectOf(el) ==
    CASE el = "elA" -> [top |-> 100, left |-> 20, width |-> 200]
      [] el = "elB" -> [top |-> 110, left |-> 30, width |-> 40]
      [] el = "elC" -> [top |-> 300, left |-> 20, width |-> 60]
      [] OTHER -> [top |-> 400, left |-> 20, width |-> 60]

\* mostrarTooltip(event) with event.target = el, on the children b of body
mostrarTooltip(b, el) ==
    LET texto == TooltipText(el)
        rect == RectOf(el)
    IN  IF texto = <<>> THEN b
        ELSE Append(b, [node |-> "tooltip",
                        textContent |-> texto,
                        top |-> rect.top - 35,
                        left |-> rect.left + rect.width \div 2])

KeepTooltip(b) == b

\* esconderTooltip() on the children b of body
esconderTooltip(b) == RemoveFirst(b, {i \in 1..Len(b) : IsTooltip(b[i])})

\* the pointer enters el: mouseenter is dispatched to el
MouseEnter(el) ==
    /\ el \notin hovered
    /\ hovered = (IF ParentOf(el) = "none" THEN {} ELSE {ParentOf(el)})
    /\ hovered' = hovered \cup {el}
    /\ body' = mostrarTooltip(body, el)
    /\ UNCHANGED <<toasts, timers>>
    /\ UNCHANGED chatVars
    /\ UNCHANGED utilVars

\* the pointer leaves el: mouseleave is dispatched to el
MouseLeave(el) ==
    /\ el \in hovered
    /\ \A c \in hovered : ParentOf(c) # el
    /\ hovered' = hovered \ {el}
    /\ body' = esconderTooltip(body)
    /\ UNCHANGED <<toasts, timers>>
    /\ UNCHANGED chatVars
    /\ UNCHANGED utilVars

(* Toasts *)

Mensagens == {<<"m">>}

\* the tipo argument; "undefined" is the omitted argument
Tipos == {"undefined", "success", "error", "aviso"}

\* icones[tipo] || ''
Icone(tipo) ==
    CASE tipo = "success" -> "[check mark]"
      [] tipo = "error" -> FailureGlyph
      [] tipo = "info" -> "[information]"
      [] OTHER -> ""

\* the delays of the three setTimeout calls, in ms
ShowDelay == 10
HideDelay == 4000
RemoveDelay == 300

\* the time from the creation of a toast to the run of its last callback
Lifetime == HideDelay + RemoveDelay

\* other distances in time between two events
Steps == {1000}

KeepExisting(b) == b

\* const existente = querySelector('.toast-notification'); if (existente) existente.remove()
RemoveExisting(b) == RemoveFirst(b, {i \in 1..Len(b) : IsToast(b[i])})

KeepToast(b, id) == b

RemoveAnyToast(b, id) == RemoveFirst(b, {i \in 1..Len(b) : IsToast(b[i])})

\* toast.remove() for the toast id
RemoveToast(b, id) == SelectSeq(b, LAMBDA n : ~(IsToast(n) /\ n.id = id))

mostrarNotificacao(mensagem, tipoArg) ==
    LET tipo == IF tipoArg = "undefined" THEN "info" ELSE tipoArg
        id == Len(toasts) + 1
    IN  /\ Len(toasts) < MaxToasts
        /\ toasts' = Append(toasts,
              [tipo |-> tipo,
               show |-> FALSE,
               age |-> 0,
               innerHTML |-> <<"<span>", Icone(tipo), "</span>", " ">> \o mensagem])
        /\ body' = Append(RemoveExisting(body), [node |-> "toast", id |-> id])
        /\ timers' = timers \o <<[toast |-> id, run |-> "show", left |-> ShowDelay],
                                 [toast |-> id, run |-> "hide", left |-> HideDelay]>>
        /\ UNCHANGED hovered
        /\ UNCHANGED chatVars
        /\ UNCHANGED utilVars

Due == {i \in 1..Len(timers) : timers[i].left = 0}

DropTimer(i) == SubSeq(timers, 1, i - 1) \o SubSeq(timers, i + 1, Len(timers))

\* the oldest due timer callback runs
TimerFires ==
    /\ Due # {}
    /\ LET i == CHOOSE k \in Due : \A m \in Due : k <= m
           t == timers[i]
       IN  CASE t.run = "show" ->
                  /\ toasts' = [toasts EXCEPT ![t.toast].show = TRUE]
                  /\ timers' = DropTimer(i)
                  /\ UNCHANGED body
             [] t.run = "hide" ->
                  /\ toasts' = [toasts EXCEPT ![t.toast].show = FALSE]
                  /\ timers' = Append(DropTimer(i),
                        [toast |-> t.toast, run |-> "remove", left |-> RemoveDelay])
                  /\ UNCHANGED body
             [] OTHER ->
                  /\ body' = RemoveToast(body, t.toast)
                  /\ timers' = DropTimer(i)
                  /\ UNCHANGED toasts
    /\ UNCHANGED hovered
    /\ UNCHANGED chatVars
    /\ UNCHANGED utilVars

\* d ms pass; no timer is overdue
Tick(d) ==
    /\ timers # <<>>
    /\ d > 0
    /\ \A i \in 1..Len(timers) : d <= timers[i].left
    /\ timers' = [i \in 1..Len(timers) |-> [timers[i] EXCEPT !.left = @ - d]]
    /\ toasts' = [k \in 1..Len(toasts) |->
                    [toasts[k] EXCEPT !.age = IF @ + d > Lifetime THEN Lifetime ELSE @ + d]]
    /\ UNCHANGED <<body, hovered>>
    /\ UNCHANGED chatVars
    /\ UNCHANGED utilVars

NextDue == {timers[i].left : i \in 1..Len(timers)}

----------------------------------------------------------------------------
(* One run of the replace chain *)

BodyChars == {"a", " ", "\n"}

\* the strings of at most n characters of A
StringsUpTo(A, n) == UNION {[1..k -> A] : k \in 0..n}

\* text, an opening fence, at most MaxBody characters and a closing fence
RenderInputs ==
    {pre \o Fence \o x \o Fence :
        pre \in {<<>>, <<"i", " ">>}, x \in StringsUpTo(BodyChars, MaxBody)}

\* the replace chain of adicionarMensagemChat runs on renderIn
ApplyRender ==
    /\ ~renderOut.done
    /\ renderOut' = [done |-> TRUE, html |-> Render(renderIn)]
    /\ UNCHANGED renderIn
    /\ UNCHANGED <<debounceVars, widgetVars>>
    /\ UNCHANGED <<chatVars, pageVars>>

----------------------------------------------------------------------------
(* debounce(func, wait) *)

\* the wait argument, in ms
DebounceWait == 300

\* the arguments the wrapper is called with
Args == {"x", "y"}

\* other distances in time between two events
DebounceSteps == {100}

NoClear(ts, id) == ts

\* clearTimeout(id)
ClearTimeout(ts, id) == SelectSeq(ts, LAMBDA t : t.id # id)

ScheduleNow(ts, id, args) == Append(ts, [id |-> id, left |-> 0, args |-> args])

\* setTimeout(later, wait), later closing over args
Schedule(ts, id, args) == Append(ts, [id |-> id, left |-> DebounceWait, args |-> args])

\* executedFunction(...args)
executedFunction(args) ==
    LET id == wrapperCalls + 1
    IN  /\ wrapperCalls < MaxWrapperCalls
        /\ dTimers' = Schedule(ClearTimeout(dTimers, timeout), id, args)
        /\ timeout' = id
        /\ wrapperCalls' = id
        /\ gap' = 0
        /\ IF wrapperCalls = 0 \/ gap > DebounceWait
           THEN burstArgs' = Append(burstArgs, args) /\ UNCHANGED edge
           ELSE IF gap < DebounceWait
           THEN burstArgs' = [burstArgs EXCEPT ![Len(burstArgs)] = args] /\ UNCHANGED edge
           ELSE edge' = TRUE /\ UNCHANGED burstArgs
        /\ UNCHANGED funcCalls
        /\ UNCHANGED <<renderVars, widgetVars>>
        /\ UNCHANGED <<chatVars, pageVars>>

DebounceDue == {i \in 1..Len(dTimers) : dTimers[i].left = 0}

\* const later = () => { clearTimeout(timeout); func(...args); } runs when due
later ==
    /\ DebounceDue # {}
    /\ LET i == CHOOSE k \in DebounceDue : \A m \in DebounceDue : k <= m
           rest == SubSeq(dTimers, 1, i - 1) \o SubSeq(dTimers, i + 1, Len(dTimers))
       IN  /\ dTimers' = ClearTimeout(rest, timeout)
           /\ funcCalls' = Append(funcCalls, dTimers[i].args)
    /\ UNCHANGED <<timeout, wrapperCalls, gap, burstArgs, edge>>
    /\ UNCHANGED <<renderVars, widgetVars>>
    /\ UNCHANGED <<chatVars, pageVars>>

\* d ms pass; no debounce timer is overdue
DebounceTick(d) ==
    /\ d > 0
    /\ \A i \in 1..Len(dTimers) : d <= dTimers[i].left
    /\ dTimers # <<>> \/ gap <= DebounceWait
    /\ dTimers' = [i \in 1..Len(dTimers) |-> [dTimers[i] EXCEPT !.left = @ - d]]
    /\ gap' = IF gap + d > DebounceWait THEN DebounceWait + 1 ELSE gap + d
    /\ UNCHANGED <<timeout, funcCalls, wrapperCalls, burstArgs, edge>>
    /\ UNCHANGED <<renderVars, widgetVars>>
    /\ UNCHANGED <<chatVars, pageVars>>

DebounceNextDue == {dTimers[i].left : i \in 1..Len(dTimers)}

----------------------------------------------------------------------------
(* toggleChat and the style block *)

AlwaysNone(active) == "none"

\* toggle.style.display after the class active was toggled
LauncherDisplay(active) == IF active THEN "none" ELSE "flex"

toggleChat ==
    /\ toggles < MaxToggles
    /\ toggles' = toggles + 1
    /\ chatActive' = ~chatActive
    /\ focused' = IF chatActive' THEN "chatInput" ELSE focused
    /\ toggleDisplay' = LauncherDisplay(chatActive')
    /\ UNCHANGED head
    /\ UNCHANGED <<renderVars, debounceVars>>
    /\ UNCHANGED <<chatVars, pageVars>>

\* the user moves the input focus; the chat input can take it while the chat is open
MoveFocus(el) ==
    /\ el # focused
    /\ el = "chatInput" => chatActive
    /\ focused' = el
    /\ UNCHANGED <<chatActive, toggleDisplay, toggles, head>>
    /\ UNCHANGED <<renderVars, debounceVars>>
    /\ UNCHANGED <<chatVars, pageVars>>

\* the script is loaded once more: the function at its end appends a style block
LoadScript ==
    /\ Len(head) < MaxLoads
    /\ head' = Append(head, "style")
    /\ UNCHANGED <<chatActive, toggleDisplay, focused, toggles>>
    /\ UNCHANGED <<renderVars, debounceVars>>
    /\ UNCHANGED <<chatVars, pageVars>>

----------------------------------------------------------------------------
(* Specifications *)

\* the page after the script was loaded once
InitPage ==
    /\ inputValue = <<>>
    /\ chatMessages = <<>>
    /\ reqs = <<>>
    /\ calls = 0
    /\ created = 0
    /\ padded = FALSE
    /\ body = <<>>
    /\ toasts = <<>>
    /\ timers = <<>>
    /\ hovered = {}
    /\ renderOut = [done |-> FALSE, html |-> <<>>]
    /\ timeout = 0
    /\ dTimers = <<>>
    /\ funcCalls = <<>>
    /\ wrapperCalls = 0
    /\ gap = DebounceWait + 1
    /\ burstArgs = <<>>
    /\ edge = FALSE
    /\ chatActive = FALSE
    /\ toggleDisplay = ""
    /\ focused = "body"
    /\ toggles = 0
    /\ head = <<"style">>

Init == InitPage /\ renderIn = <<>>

InitRender == InitPage /\ renderIn \in RenderInputs

NextChat ==
    \/ \E v \in Inputs : TypeInput(v)
    \/ enviarMensagem
    \/ \E r \in 1..Len(reqs) : FetchRejects(r)
    \/ \E r \in 1..Len(reqs) : BodyUnparsable(r)
    \/ \E r \in 1..Len(reqs) : \E d \in ServerData : BodyParses(r, d)
    \/ \E r \in 1..Len(reqs) : ThenData(r)
    \/ \E r \in 1..Len(reqs) : CatchError(r)

SpecChat == Init /\ [][NextChat]_vars

NextPage ==
    \/ \E el \in Elements : MouseEnter(el)
    \/ \E el \in Elements : MouseLeave(el)
    \/ \E m \in Mensagens : \E t \in Tipos : mostrarNotificacao(m, t)
    \/ TimerFires
    \/ \E d \in Steps \cup NextDue : Tick(d)

SpecPage == Init /\ [][NextPage]_vars

NextToast ==
    \/ \E m \in Mensagens : \E t \in Tipos : mostrarNotificacao(m, t)
    \/ TimerFires
    \/ \E d \in Steps \cup NextDue : Tick(d)

NextRender == ApplyRender

SpecRender == InitRender /\ [][NextRender]_vars

NextUtil ==
    \/ \E a \in Args : executedFunction(a)
    \/ later
    \/ \E d \in DebounceSteps \cup DebounceNextDue : DebounceTick(d)
    \/ toggleChat
    \/ \E el \in {"body", "chatInput"} : MoveFocus(el)
    \/ LoadScript

SpecUtil == Init /\ [][NextUtil]_vars

\* time passes and a due callback runs
SpecToast ==
    /\ Init
    /\ [][NextToast]_vars
    /\ WF_vars(TimerFires)
    /\ WF_vars(\E d \in Steps \cup NextDue : Tick(d))

----------------------------------------------------------------------------
(* Properties of the chat *)

\* what the page shows of a transcript: class and markup of every entry
View(msgs) ==
    [i \in 1..Len(msgs) |->
        [className |-> msgs[i].className, innerHTML |-> msgs[i].innerHTML]]

UserEntry(text) ==
    [className |-> <<"message", "user">>, innerHTML |-> <<"<p>">> \o text \o <<"</p>">>]

AssistantEntry(html) ==
    [className |-> <<"message", "assistant">>, innerHTML |-> <<"<p>">> \o html \o <<"</p>">>]

IsBlank(s) == \A i \in 1..Len(s) : s[i] \in Whitespace

\* t is s without its leading and trailing whitespace
IsTrimOf(t, s) ==
    /\ \E i \in 0..Len(s) : \E j \in 0..Len(s) :
          /\ i + j <= Len(s)
          /\ IsBlank(SubSeq(s, 1, i))
          /\ IsBlank(SubSeq(s, Len(s) - j + 1, Len(s)))
          /\ t = SubSeq(s, i + 1, Len(s) - j)
    /\ t # <<>> => (t[1] \notin Whitespace /\ t[Len(t)] \notin Whitespace)

IsOwnPlaceholder(n, r) == n.kind = "placeholder" /\ n.req = r

AllResolved == reqs # <<>> /\ \A r \in 1..Len(reqs) : reqs[r].pc = "done"

EntriesOf(r, kinds) ==
    {i \in 1..Len(chatMessages) : chatMessages[i].req = r /\ chatMessages[i].kind \in kinds}

\* the request settled in a way whose handlers remove one entry and append one
PlainOutcome(r) ==
    \/ reqs[r].outcome \in {"pending", "failed"}
    \/ reqs[r].outcome = "json" /\ reqs[r].data \in {ReplyOk, ReplyFail}

\* C1: once every issued request has resolved, the transcript holds exactly one
\* user entry per send with that send's text, exactly one final assistant entry
\* per send, and no leftover placeholder.
C1_OnePairPerSend ==
    (AllResolved /\ \A r \in 1..Len(reqs) : PlainOutcome(r)) =>
        /\ \A r \in 1..Len(reqs) :
              /\ Cardinality(EntriesOf(r, {"user"})) = 1
              /\ \A i \in EntriesOf(r, {"user"}) :
                    /\ chatMessages[i].className = <<"message", "user">>
                    /\ SubSeq(chatMessages[i].innerHTML, 2,
                              Len(chatMessages[i].innerHTML) - 1) = JsonTextOf(reqs[r].body)
              /\ Cardinality(EntriesOf(r, {"reply", "error", "connerr"})) = 1
        /\ \A i \in 1..Len(chatMessages) :
              chatMessages[i].innerHTML # <<"<p>">> \o Placeholder \o <<"</p>">>

\* C2: with overlapping exchanges, in either order of arrival, the resolution of
\* a request removes that request's own placeholder and nothing else.
C2_ResolvedIndependently ==
    (\A r \in 1..Len(reqs) : PlainOutcome(r)) =>
        \A r \in 1..Len(reqs) : \A k \in 1..Len(reqs[r].removed) :
            IsOwnPlaceholder(reqs[r].removed[k], r)

PositionOf(msgs, id) == CHOOSE i \in 1..Len(msgs) : msgs[i].id = id

Kept(msgs) == {msgs[i].id : i \in {k \in 1..Len(msgs) : msgs[k].kind # "placeholder"}}

\* C3: no user entry and no final assistant entry is ever removed, and the
\* entries already present keep their relative order.
C3_AppendOnly ==
    [][/\ \A i \in 1..Len(chatMessages) :
             chatMessages[i].kind # "placeholder" =>
                 \E j \in 1..Len(chatMessages') : chatMessages'[j] = chatMessages[i]
       /\ \A a \in Kept(chatMessages) : \A b \in Kept(chatMessages) :
             (/\ a \in Kept(chatMessages')
              /\ b \in Kept(chatMessages')
              /\ PositionOf(chatMessages, a) < PositionOf(chatMessages, b))
             => PositionOf(chatMessages', a) < PositionOf(chatMessages', b)]_vars

\* C4: enviarMensagem with an empty or whitespace-only input changes neither the
\* transcript nor the input value and issues no request.
C4_BlankSendIsNoOp ==
    [][(calls' = calls + 1 /\ IsBlank(inputValue)) =>
          /\ chatMessages' = chatMessages
          /\ inputValue' = inputValue
          /\ reqs' = reqs
          /\ created' = created]_vars

\* a blank call has been made and the input still holds the whitespace
C4_Witness == calls > Len(reqs) /\ inputValue = <<" ">>

OnlyHello == Len(reqs) = 1 /\ ~padded

SentHello == <<UserEntry(Hello), AssistantEntry(Placeholder)>>

\* C5 as stated: the server answers hello with the object whose members are
\* named success and response, and the reply renders as strong hi.
C5_EnglishKeys ==
    OnlyHello =>
        /\ reqs[1].pc \in {"fetch", "then"} => View(chatMessages) = SentHello
        /\ (reqs[1].pc = "done" /\ reqs[1].outcome = "json"
                /\ reqs[1].data = ReplyEnglish) =>
              View(chatMessages) =
                 <<UserEntry(Hello), AssistantEntry(<<"<strong>", "h", "i", "</strong>">>)>>

\* C5 amended: the same exchange with the members named sucesso and resposta.
C5_SingleExchange ==
    OnlyHello =>
        /\ reqs[1].pc \in {"fetch", "then"} => View(chatMessages) = SentHello
        /\ (reqs[1].pc = "done" /\ reqs[1].outcome = "json"
                /\ reqs[1].data = ReplyOk) =>
              View(chatMessages) =
                 <<UserEntry(Hello), AssistantEntry(<<"<strong>", "h", "i", "</strong>">>)>>

C5_Witness ==
    OnlyHello /\ reqs[1].pc = "done" /\ reqs[1].outcome = "json" /\ reqs[1].data = ReplyOk

RequestIssued(key) ==
    /\ (calls' = calls + 1 /\ ~IsBlank(inputValue)) =>
          /\ Len(reqs') = Len(reqs) + 1
          /\ LET q == reqs'[Len(reqs')]
             IN  /\ q.method = "POST"
                 /\ q.url = "/ai/chat"
                 /\ DOMAIN q.headers = {"Content-Type"}
                 /\ q.headers["Content-Type"] = "application/json"
                 /\ q.body[1] = "{" /\ q.body[Len(q.body)] = "}"
                 /\ JsonKeyOf(q.body) = key
                 /\ IsTrimOf(JsonTextOf(q.body), inputValue)
    /\ calls' = calls => Len(reqs') = Len(reqs)
    /\ \A r \in 1..Len(reqs) :
          /\ reqs'[r].body = reqs[r].body
          /\ reqs'[r].url = reqs[r].url
          /\ reqs'[r].method = reqs[r].method

\* C6 as stated: every call with non-blank input issues exactly one POST to
\* /ai/chat whose JSON body carries the trimmed text under the key message.
C6_KeyMessage == [][RequestIssued("message")]_vars

\* C6 amended: the same, with the text under the key mensagem.
C6_OneRequestPerSend == [][RequestIssued("mensagem")]_vars

\* a request was issued from a padded input
C6_Witness == reqs # <<>> /\ padded

\* C7: a rejected fetch, an unparsable body, JSON null or a success object
\* without reply text ends as a connection error: only the placeholder is
\* removed, one generic connection-error entry is appended, the user entry stays.
C7_ConnectionError ==
    (/\ Len(reqs) = 1
     /\ reqs[1].pc = "done"
     /\ reqs[1].outcome \in {"failed", "threw"})
    =>  /\ Len(reqs[1].removed) = 1
        /\ IsOwnPlaceholder(reqs[1].removed[1], 1)
        /\ Len(reqs[1].appended) = 1
        /\ View(reqs[1].appended) = <<AssistantEntry(ConnectionError)>>
        /\ EntriesOf(1, {"user"}) # {}

\* C8: a JSON object that indicates failure with error text e makes the handler
\* remove the placeholder of the request and append exactly one entry, the
\* failure glyph followed by e.
C8_ServerError ==
    \A r \in 1..Len(reqs) :
        (reqs[r].pc = "done" /\ reqs[r].outcome = "json" /\ reqs[r].data = ReplyFail) =>
            /\ Len(reqs[r].removed) = 1
            /\ IsOwnPlaceholder(reqs[r].removed[1], r)
            /\ View(reqs[r].appended) = <<AssistantEntry(<<FailureGlyph, " ", "e">>)>>

----------------------------------------------------------------------------
(* Properties of the page *)

\* C9: at most one toast node is in the page at every instant.
C9_AtMostOneToast == ToastCount <= 1

\* a second toast is in the page while timers of the first are still pending
C9_Witness ==
    /\ Len(toasts) >= 2
    /\ ToastCount = 1
    /\ \E i \in 1..Len(timers) : timers[i].toast = 1

\* C10: at most one tooltip node is in the page at every instant.
C10_AtMostOneTooltip == TooltipCount <= 1

InPage(k) == \E i \in 1..Len(body) : IsToast(body[i]) /\ body[i].id = k

TimersOf(k) == {i \in 1..Len(timers) : timers[i].toast = k}

\* the toast k is in the state its age prescribes
OnSchedule(k) ==
    LET t == toasts[k]
    IN  /\ t.show => (ShowDelay <= t.age /\ t.age <= HideDelay)
        /\ (ShowDelay < t.age /\ t.age < HideDelay) => t.show
        /\ t.age < Lifetime => InPage(k)
        /\ ~InPage(k) => (t.age = Lifetime /\ TimersOf(k) = {})
        /\ (t.age = Lifetime /\ TimersOf(k) = {}) => ~InPage(k)

\* C13: a toast that is not replaced gets its show state 10 ms after creation,
\* loses it at 4000 ms and leaves the page 300 ms later; so the page eventually
\* holds no toast.
C13_ToastLifecycle ==
    /\ [](toasts # <<>> => OnSchedule(Len(toasts)))
    /\ (ToastCount > 0) ~> (ToastCount = 0)

\* the last toast has run its whole life and is gone
C13_Witness ==
    /\ Len(toasts) = MaxToasts
    /\ toasts[Len(toasts)].age = Lifetime
    /\ timers = <<>>
    /\ ToastCount = 0

OldestDue == CHOOSE i \in Due : \A m \in Due : i <= m

\* C19: the pending callbacks of a replaced toast act on that toast only: the show
\* state and the presence in the page of a toast change only by its own callback
\* or by the call that replaces it, so the latest toast stays for its 4300 ms.
C19_StaleTimers ==
    /\ [][\A k \in 1..Len(toasts) :
             (toasts'[k].show # toasts[k].show \/ InPage(k)' # InPage(k)) =>
                 \/ Len(toasts') > Len(toasts)
                 \/ Due # {} /\ timers[OldestDue].toast = k]_vars
    /\ [](toasts # <<>> /\ toasts[Len(toasts)].age < Lifetime => InPage(Len(toasts)))

\* the show callback of the first toast ran after the second toast replaced it
C19_Witness ==
    /\ Len(toasts) >= 2
    /\ toasts[1].age < Lifetime
    /\ toasts[1].age - toasts[2].age < ShowDelay
    /\ toasts[1].show
    /\ InPage(2)

----------------------------------------------------------------------------
(* C15 *)

Pres == {<<>>, <<"i", " ">>}

NoNewline(x) == \A k \in 1..Len(x) : x[k] # "\n"

IsTag(x) == \A k \in 1..Len(x) : x[k] \in WordChars

PreBlock(pre, code) == pre \o <<"<pre>">> \o code \o <<"</pre>">>

\* the body directly follows the opening fence on the same line
SameLine ==
    \A pre \in Pres, code \in StringsUpTo(BodyChars, MaxBody) :
        (NoNewline(code) /\ renderIn = pre \o Fence \o code \o Fence)
            => renderOut.html = PreBlock(pre, code)

\* a language tag (possibly empty) and a newline precede the body
TagLine ==
    \A pre \in Pres, tag \in StringsUpTo(BodyChars, MaxBody),
       code \in StringsUpTo(BodyChars, MaxBody) :
        (/\ IsTag(tag) /\ NoNewline(code)
         /\ renderIn = pre \o Fence \o tag \o <<"\n">> \o code \o Fence)
            => renderOut.html = PreBlock(pre, code)

\* C15: rendering a string with a fenced block with body code yields a pre
\* block that contains code with the fences stripped, both when the body
\* directly follows the opening fence and when a language tag and a newline
\* precede it (the tag is dropped, the body is kept).
C15_FencedBlock == renderOut.done => (SameLine /\ TagLine)

----------------------------------------------------------------------------
(* C12, C18 *)

\* the wrapper calls so far fall into bursts, none at exactly wait after the previous call
Bursts == IF edge THEN 0 ELSE Len(burstArgs)

\* C12: N >= 1 calls of the wrapper, each less than wait after the previous
\* one, result in exactly one call of func, made with the arguments of the
\* last wrapper call; func is not called while the scheduled call is pending.
C12_OneCallLastArgs ==
    Bursts = 1 => (IF dTimers # <<>> THEN funcCalls = <<>> ELSE funcCalls = burstArgs)

C12_Witness ==
    /\ Bursts = 1 /\ wrapperCalls = MaxWrapperCalls /\ dTimers = <<>>
    /\ funcCalls = <<"y">>

\* C18: func is never called sooner than wait after the most recent wrapper
\* call, at most one scheduled call is pending, and k bursts of calls, each
\* more than wait after the previous one, result in exactly k calls of func,
\* one per burst with that burst's last arguments.
C18_QuiescenceAndReuse ==
    /\ [][Len(funcCalls') > Len(funcCalls) => gap >= DebounceWait]_vars
    /\ [](Len(dTimers) <= 1)
    /\ [](Bursts >= 1 =>
            funcCalls = IF dTimers = <<>> THEN burstArgs
                        ELSE SubSeq(burstArgs, 1, Len(burstArgs) - 1))

C18_Witness ==
    /\ Bursts = 2 /\ wrapperCalls = MaxWrapperCalls /\ dTimers = <<>>
    /\ funcCalls = <<"y", "x">>

----------------------------------------------------------------------------
(* C14 *)

\* C14: after the script has been loaded any number of times (one or more),
\* the document head contains exactly one style block added by this script.
C14_OneStyleBlock == Len(head) = 1

----------------------------------------------------------------------------
(* C16 *)

\* C16: after one or more toggleChat calls the launcher button is hidden
\* (display none) exactly when the chat container has the active marker and
\* shown (display flex) exactly when it has not; each call flips the
\* container's visibility, and input focus is moved to the chat text field
\* only on the calls that make the container visible.
C16_ToggleChat ==
    /\ [](toggles >= 1 =>
            /\ (toggleDisplay = "none") <=> chatActive
            /\ (toggleDisplay = "flex") <=> ~chatActive)
    /\ [][toggles' = toggles + 1 =>
            /\ chatActive' = ~chatActive
            /\ chatActive' => focused' = "chatInput"
            /\ ~chatActive' => focused' = focused]_vars

C16_Witness ==
    /\ toggles > 1 /\ chatActive /\ toggleDisplay = "none"
    /\ focused = "chatInput"

----------------------------------------------------------------------------
(* C17 *)

\* this step is an enviarMensagem call that issues a request
SendStep == calls' = calls + 1 /\ Len(reqs') = Len(reqs) + 1

\* this step is a step of the promise chain of some request
ChainStep == calls' = calls /\ reqs' # reqs

\* C17: one enviarMensagem call with non-empty input appends the user entry,
\* clears the input field, appends the placeholder directly after the user
\* entry and issues the request, all before the response can be handled (the
\* request is still pending when the call returns); the input field is empty
\* when the request goes in flight, and no step of the promise chain, failure
\* included, writes the input field.
C17_SendOrder ==
    [][/\ SendStep =>
            LET n == Len(chatMessages)
                r == Len(reqs')
            IN  /\ Len(chatMessages') = n + 2
                /\ SubSeq(chatMessages', 1, n) = chatMessages
                /\ \E t \in Inputs :
                      /\ IsTrimOf(t, inputValue)
                      /\ View(<<chatMessages'[n + 1]>>) = <<UserEntry(t)>>
                /\ chatMessages'[n + 1].req = r
                /\ View(<<chatMessages'[n + 2]>>) = <<AssistantEntry(Placeholder)>>
                /\ IsOwnPlaceholder(chatMessages'[n + 2], r)
                /\ inputValue' = <<>>
                /\ reqs'[r].pc = "fetch" /\ reqs'[r].outcome = "pending"
                /\ reqs'[r].removed = <<>> /\ reqs'[r].appended = <<>>
                /\ SubSeq(reqs', 1, r - 1) = reqs
       /\ ChainStep => inputValue' = inputValue]_vars

\* a request failed after the user had typed again: the new text is still there
C17_Witness ==
    /\ reqs # <<>> /\ reqs[1].pc = "done" /\ reqs[1].outcome = "failed"
    /\ inputValue = Hello

----------------------------------------------------------------------------
(* C20 *)

AllPlain == \A r \in 1..Len(reqs) : PlainOutcome(r)

\* C20: for chat requests that end in a fetch rejection or in a JSON object
\* whose reply or error text is a string, every resolution removes exactly one
\* transcript entry and appends exactly one, and every send appends exactly
\* two; so at every point the transcript length is twice the number of sends.
C20_LengthTwicePerSend ==
    AllPlain =>
        /\ Len(chatMessages) = 2 * Len(reqs)
        /\ \A r \in 1..Len(reqs) :
              reqs[r].pc = "done" =>
                  (Len(reqs[r].removed) = 1 /\ Len(reqs[r].appended) = 1)

\* two overlapping sends, the second one resolved first
C20_Witness ==
    /\ AllPlain /\ Len(reqs) = MaxSends
    /\ reqs[1].pc # "done" /\ reqs[2].pc = "done"
    /\ Len(reqs[2].appended) = 1

====
